---- MODULE Spec2Model ----
(***************************************************************************)
(* Model of the in-edit renderers (src/src/renderer.rs): FullRenderer and  *)
(* LazyRenderer drawing a multi-line prompt through relative terminal      *)
(* primitives, with the shadow state (PreviousDrawState) they keep.        *)
(*                                                                         *)
(* Text is a sequence of one-character strings.  Lines, shadow cursor and  *)
(* screen rows/columns are 0-based as in the source; TLA+ sequences are    *)
(* 1-based, so line i of the buffer is buffers[i + 1].                     *)
(***************************************************************************)
EXTENDS Integers, Sequences, FiniteSets, TLC

\* ------------------------------------------------------------------ bounds
MaxLines == 2          \* most lines the consumer puts in the buffer
MaxLen == 2            \* most characters of one line
MaxFailAt == 6         \* latest primitive call (0-based) an injected I/O error hits
MaxDiffLines == 2      \* most lines of the snapshots find_diff is tried on
MaxMove == 3           \* largest count a directional move is called with

Chars == {"a"}
Blank == " "
NoFail == -1

\* usize arithmetic: the width is scaled from 64 to 8 bits.
UsizeMod == 2 ^ 8

\* The terminal window: a row below the tallest block, and room for a gutter
\* and one more column to the right of the longest line.
TermRows == MaxLines + 1
TermCols == MaxLen + 2

Min(a, b) == IF a < b THEN a ELSE b
Max(a, b) == IF a > b THEN a ELSE b

VARIABLES
    buffers,        \* MultilineTerm.buffers: the lines of text
    cursor,         \* MultilineTerm.cursor: [line, index], the logical cursor
    gutter,         \* FullRenderer.gutter: "none" or the kind of closure
    mode,           \* which Renderer the host uses: "full" or "lazy"
    overflowChecks, \* build profile: "on" panics on usize overflow, "off" wraps;
                    \* "unknown" until the first overflow shows which it is
    pds,            \* FullRenderer.pds: [height, line, index]
    pbuf,           \* LazyRenderer.pbuf: snapshot of the lines last rendered
    scr,            \* terminal: rows of cells
    prow, pcol,     \* terminal: physical cursor row and column
    blk,            \* terminal rows holding output of the renderer (not erased since)
    hlost,          \* terminal: the cursor left the window to the right
    log,            \* terminal primitive calls issued by the last renderer call
    lastOp,         \* the last step: "init", "edit", "draw", "clear_draw", "redraw"
    diff,           \* classification taken by the last LazyRenderer.redraw
    status,         \* outcome of the last renderer call: "ok", "err", "panic"
    pre,            \* renderer and terminal state when the last renderer call began
    arg             \* count the last directional move was called with

vars == <<buffers, cursor, gutter, mode, overflowChecks, pds, pbuf, scr, prow,
          pcol, blk, hlost, log, lastOp, diff, status, pre, arg>>

\* --------------------------------------------------------------- host state
\* The read-only view of MultilineTerm the renderer and the gutter receive.
Term == [buffers |-> buffers, cursor |-> cursor, gutter |-> gutter]

\* MultilineTerm::current_line_len(): length of the line the logical cursor is on.
current_line_len(t) ==
    IF t.cursor.line < Len(t.buffers) THEN Len(t.buffers[t.cursor.line + 1]) ELSE 0

Digits == <<"1", "2", "3", "4", "5", "6">>

\* The gutter closure f(i, term).  "basic" is the closure of examples/basic.rs
\* with its 8-column strings scaled to one column: "e" for the enter hint,
\* the digit of i + 1 for the line number.  "cursor" marks the line the
\* logical cursor is on.
GutterText(t, i) ==
    CASE t.gutter = "basic" ->
            IF \/ t.buffers = <<>>
               \/ (i + 1 = Len(t.buffers) /\ Len(t.buffers[Len(t.buffers)]) = 0)
            THEN <<"e">>
            ELSE <<Digits[i + 1]>>
      [] t.gutter = "cursor" ->
            IF i = t.cursor.line THEN <<">">> ELSE <<".">>
      [] OTHER -> <<>>

\* Width of the configured gutter (the same for every line).
GutterLen == IF gutter = "none" THEN 0 ELSE 1

\* ------------------------------------------------------- terminal primitives
\* A renderer call is evaluated on a record m:
\*   scr, prow, pcol, blk   the terminal
\*   pds, pbuf              the renderer
\*   log                    primitive calls issued so far in this call
\*   fuel                   primitive calls that succeed before the injected
\*                          I/O error (NoFail: none is injected)
\*   st                     "ok", "err" (io::Error returned), "panic"
\*   hlost                  the cursor left the window to the right
\*   oob                    the window would have to scroll
\*   uf                     a usize subtraction went below zero
\*   chk                    overflow checks of the build: "on", "off"
\*   of                     a usize operation overflowed in this call
BlankRow == [c \in 1..TermCols |-> Blank]
BlankScreen == [r \in 1..TermRows |-> BlankRow]

LogEntry(op, n, row) == [op |-> op, n |-> n, row |-> row, ok |-> TRUE]

\* One call of a terminal primitive: it fails when the fuel is used up,
\* otherwise it has its effect (the record `after`) and is logged.
Prim(m, e, after) ==
    IF m.fuel = 0
    THEN [m EXCEPT !.st = "err", !.fuel = NoFail,
                   !.log = Append(@, [e EXCEPT !.ok = FALSE])]
    ELSE [after EXCEPT !.fuel = IF m.fuel > 0 THEN m.fuel - 1 ELSE m.fuel,
                       !.log = Append(m.log, e)]

\* The `?` operator: continue with F only when the previous step returned Ok.
Try(m, F(_)) == IF m.st = "ok" THEN F(m) ELSE m

\* The cursor left the window to the right: from here on the cells and the
\* column are no longer followed (hlost); rows still are.
LoseColumns(m) == [m EXCEPT !.hlost = TRUE, !.scr = BlankScreen, !.pcol = 0]

\* Term::write_str(text): raw text at the cursor, no implicit newline.
PutText(m, text) ==
    LET m1 == [m EXCEPT !.blk = @ \cup {m.prow}] IN
    IF m.hlost THEN m1
    ELSE IF m.pcol + Len(text) > TermCols THEN LoseColumns(m1)
    ELSE [m1 EXCEPT
            !.scr[m.prow + 1] =
                [c \in 1..TermCols |->
                    IF c > m.pcol /\ c <= m.pcol + Len(text)
                    THEN text[c - m.pcol] ELSE @[c]],
            !.pcol = @ + Len(text)]

term_write_str(m, op, i, text) == Prim(m, LogEntry(op, i, m.prow), PutText(m, text))

\* Term::write_line(""): a line break, advancing to the next line, column 0.
\* A line break on the last row of the window would scroll it (oob).
term_write_line(m) ==
    Prim(m, LogEntry("newline", 0, m.prow),
         IF m.prow + 1 >= TermRows
         THEN [m EXCEPT !.oob = TRUE]
         ELSE [m EXCEPT !.prow = @ + 1, !.pcol = 0, !.blk = @ \cup {m.prow + 1}])

\* Term::clear_line(): erases the line the cursor is on; the cursor position
\* on that line is preserved.
term_clear_line(m) ==
    Prim(m, LogEntry("clear_line", 0, m.prow),
         [m EXCEPT !.scr[m.prow + 1] = BlankRow, !.blk = @ \ {m.prow}])

\* Term::clear_last_lines(n): erases the n lines immediately above the
\* current line; the cursor ends on the topmost of them, column kept.
term_clear_last_lines(m, n) ==
    LET top == Max(0, m.prow - n) IN
    Prim(m, LogEntry("clear_last_lines", n, m.prow),
         [m EXCEPT !.scr = [r \in 1..TermRows |->
                               IF r - 1 >= top /\ r - 1 < m.prow THEN BlankRow ELSE @[r]],
                   !.blk = @ \ {r \in 0..(TermRows - 1) : r >= top /\ r < m.prow},
                   !.prow = top])

\* common_term move_cursor_*: an escape sequence is written only when n > 0.
\* The terminal keeps the cursor inside its rows and right of column 0.
term_move_cursor_up(m, n) ==
    IF n > 0
    THEN Prim(m, LogEntry("up", n, m.prow), [m EXCEPT !.prow = Max(0, @ - n)])
    ELSE m

term_move_cursor_down(m, n) ==
    IF n > 0
    THEN Prim(m, LogEntry("down", n, m.prow), [m EXCEPT !.prow = Min(TermRows - 1, @ + n)])
    ELSE m

term_move_cursor_left(m, n) ==
    IF n > 0
    THEN Prim(m, LogEntry("left", n, m.prow),
              IF m.hlost THEN m ELSE [m EXCEPT !.pcol = Max(0, @ - n)])
    ELSE m

term_move_cursor_right(m, n) ==
    IF n > 0
    THEN Prim(m, LogEntry("right", n, m.prow),
              IF m.hlost THEN m
              ELSE IF m.pcol + n > TermCols THEN LoseColumns(m)
              ELSE [m EXCEPT !.pcol = @ + n])
    ELSE m

\* ------------------------------------------------------------ usize arithmetic
\* a - b on usize: panics with overflow checks, wraps without.
USub(m, a, b, F(_, _)) ==
    IF a >= b THEN F(m, a - b)
    ELSE IF m.chk = "on" THEN [m EXCEPT !.st = "panic", !.uf = TRUE, !.of = TRUE]
    ELSE F([m EXCEPT !.uf = TRUE, !.of = TRUE], (a - b + UsizeMod) % UsizeMod)

\* a + b on usize, likewise.
UAdd(m, a, b, F(_, _)) ==
    IF a + b < UsizeMod THEN F(m, a + b)
    ELSE IF m.chk = "on" THEN [m EXCEPT !.st = "panic", !.of = TRUE]
    ELSE F([m EXCEPT !.of = TRUE], (a + b) % UsizeMod)

\* ------------------------------------------------- FullRenderer: cursor moves
\* Each move calls the terminal primitive and, when it returned Ok, updates
\* the shadow cursor by n.
move_cursor_up(m, n) ==
    Try(term_move_cursor_up(m, n),
        LAMBDA x : USub(x, x.pds.line, n, LAMBDA y, v : [y EXCEPT !.pds.line = v]))

\* move_cursor_down updating the shadow line before it calls the terminal.
move_cursor_down_shadow_first(m, n) ==
    UAdd(m, m.pds.line, n,
         LAMBDA y, v : term_move_cursor_down([y EXCEPT !.pds.line = v], n))

move_cursor_down(m, n) ==
    Try(term_move_cursor_down(m, n),
        LAMBDA x : UAdd(x, x.pds.line, n, LAMBDA y, v : [y EXCEPT !.pds.line = v]))

\* move_cursor_left taking the shadow index back by one column whatever n is.
move_cursor_left_by_one(m, n) ==
    Try(term_move_cursor_left(m, n),
        LAMBDA x : USub(x, x.pds.index, 1, LAMBDA y, v : [y EXCEPT !.pds.index = v]))

move_cursor_left(m, n) ==
    Try(term_move_cursor_left(m, n),
        LAMBDA x : USub(x, x.pds.index, n, LAMBDA y, v : [y EXCEPT !.pds.index = v]))

move_cursor_right(m, n) ==
    Try(term_move_cursor_right(m, n),
        LAMBDA x : UAdd(x, x.pds.index, n, LAMBDA y, v : [y EXCEPT !.pds.index = v]))

\* move_cursor_to_bottom moving height - line rows (without the - 1).
move_cursor_to_bottom_off_by_one(m) ==
    USub(m, m.pds.height, m.pds.line, LAMBDA x, d : move_cursor_down(x, d))

move_cursor_to_bottom(m) ==
    USub(m, m.pds.height, m.pds.line,
         LAMBDA x, d : USub(x, d, 1, LAMBDA y, n : move_cursor_down(y, n)))

move_cursor_to_line(m, line) ==
    LET pds_line == m.pds.line IN
    IF pds_line > line THEN move_cursor_up(m, pds_line - line)
    ELSE IF pds_line < line THEN move_cursor_down(m, line - pds_line)
    ELSE m

move_cursor_to_index(m, index) ==
    LET pds_index == m.pds.index IN
    IF index < pds_index THEN move_cursor_left(m, pds_index - index)
    ELSE IF index > pds_index THEN move_cursor_right(m, index - pds_index)
    ELSE m

\* draw_cursor without the clamp to the length of the line.
draw_cursor_unclamped(t, m) ==
    Try(move_cursor_to_line(m, t.cursor.line),
        LAMBDA x : move_cursor_to_index(x, t.cursor.index))

draw_cursor(t, m) ==
    Try(move_cursor_to_line(m, t.cursor.line),
        LAMBDA x : move_cursor_to_index(x, Min(t.cursor.index, current_line_len(t))))

\* ------------------------------------------------------- FullRenderer: drawing
draw_line(t, m, line) ==
    LET m1 == IF t.gutter # "none"
              THEN term_write_str(m, "gutter", line, GutterText(t, line))
              ELSE m
    IN Try(m1, LAMBDA x : term_write_str(x, "text", line, t.buffers[line + 1]))

new_line(m) == term_write_line(m)

\* The loop of draw with a line break after every line, the last included.
RECURSIVE draw_lines_trailing_break(_, _, _)
draw_lines_trailing_break(t, m, i) ==
    IF i >= Len(t.buffers) \/ m.st # "ok" THEN m
    ELSE LET m1 == draw_line(t, m, i)
             m2 == Try(m1, LAMBDA x : new_line(x))
         IN draw_lines_trailing_break(t, m2, i + 1)

\* The loop of draw: lines i, i + 1, ... with a line break between lines.
RECURSIVE draw_lines(_, _, _)
draw_lines(t, m, i) ==
    IF i >= Len(t.buffers) \/ m.st # "ok" THEN m
    ELSE LET m1 == draw_line(t, m, i)
             m2 == IF i < Len(t.buffers) - 1 THEN Try(m1, LAMBDA x : new_line(x)) ELSE m1
         IN draw_lines(t, m2, i + 1)

\* draw with the shadow cursor reset on the empty buffer.
FullRenderer_draw_resets_cursor(t, m0) ==
    LET m == [m0 EXCEPT !.blk = @ \cup {m0.prow}] IN
    IF t.buffers = <<>>
    THEN LET m1 == IF t.gutter # "none"
                   THEN term_write_str(m, "gutter", 0, GutterText(t, 0))
                   ELSE m
         IN Try(m1, LAMBDA x : [x EXCEPT !.pds = [height |-> 1, line |-> 0, index |-> 0]])
    ELSE Try(draw_lines(t, m, 0),
             LAMBDA x : draw_cursor(t,
                 [x EXCEPT !.pds = [height |-> Len(t.buffers),
                                    line   |-> Len(t.buffers) - 1,
                                    index  |-> Len(t.buffers[Len(t.buffers)])]]))

\* FullRenderer::draw.  The row the draw starts on counts as a row of the block.
FullRenderer_draw(t, m0) ==
    LET m == [m0 EXCEPT !.blk = @ \cup {m0.prow}] IN
    IF t.buffers = <<>>
    THEN LET m1 == IF t.gutter # "none"
                   THEN term_write_str(m, "gutter", 0, GutterText(t, 0))
                   ELSE m
         IN Try(m1, LAMBDA x : [x EXCEPT !.pds.height = 1])
    ELSE Try(draw_lines(t, m, 0),
             LAMBDA x : draw_cursor(t,
                 [x EXCEPT !.pds = [height |-> Len(t.buffers),
                                    line   |-> Len(t.buffers) - 1,
                                    index  |-> Len(t.buffers[Len(t.buffers)])]]))

FullRenderer_clear_draw(m) ==
    Try(move_cursor_to_bottom(m),
        LAMBDA x : Try(term_clear_line(x),
        LAMBDA y : USub(y, y.pds.height, 1,
        LAMBDA z, n : Try(term_clear_last_lines(z, n),
        LAMBDA w : [w EXCEPT !.pds = [height |-> 0, line |-> 0, index |-> 0]]))))

\* redraw going on to draw after an I/O error of clear_draw.
FullRenderer_redraw_ignores_error(t, m) ==
    LET x == FullRenderer_clear_draw(m) IN
    IF x.st = "panic" THEN x ELSE FullRenderer_draw(t, [x EXCEPT !.st = "ok"])

FullRenderer_redraw(t, m) ==
    Try(FullRenderer_clear_draw(m), LAMBDA x : FullRenderer_draw(t, x))

\* ---------------------------------------------------------------- LazyRenderer
\* The loop of find_diff over i, i + 1, ...: the number of differing lines
\* and the last differing index.
RECURSIVE count_changes(_, _, _, _)
count_changes(old, new, i, acc) ==
    IF i >= Len(old) THEN acc
    ELSE count_changes(old, new, i + 1,
             IF old[i + 1] # new[i + 1]
             THEN [changes |-> acc.changes + 1, line |-> i]
             ELSE acc)

DiffOf(kind, line) == [kind |-> kind, line |-> line]

\* find_diff looking at the cursors before the lines.
find_diff_cursor_first(old, new, pdsCursor, termCursor) ==
    IF Len(old) # Len(new) THEN DiffOf("RedrawAll", 0)
    ELSE LET c == count_changes(old, new, 0, [changes |-> 0, line |-> 0]) IN
         CASE pdsCursor # termCursor -> DiffOf("RedrawCursor", 0)
           [] c.changes = 0 -> DiffOf("NoChange", 0)
           [] c.changes = 1 -> DiffOf("RedrawLine", c.line)
           [] OTHER -> DiffOf("RedrawAll", 0)

find_diff(old, new, pdsCursor, termCursor) ==
    IF Len(old) # Len(new) THEN DiffOf("RedrawAll", 0)
    ELSE LET c == count_changes(old, new, 0, [changes |-> 0, line |-> 0]) IN
         CASE c.changes = 0 /\ pdsCursor # termCursor -> DiffOf("RedrawCursor", 0)
           [] c.changes = 0 -> DiffOf("NoChange", 0)
           [] c.changes = 1 -> DiffOf("RedrawLine", c.line)
           [] OTHER -> DiffOf("RedrawAll", 0)

ShadowCursor(m) == [line |-> m.pds.line, index |-> m.pds.index]

\* draw that does not store the snapshot.
LazyRenderer_draw_keeps_snapshot(t, m) == FullRenderer_draw(t, m)

LazyRenderer_draw(t, m) ==
    Try(FullRenderer_draw(t, m), LAMBDA x : [x EXCEPT !.pbuf = t.buffers])

LazyRenderer_clear_draw(m) ==
    FullRenderer_clear_draw([m EXCEPT !.pbuf = <<>>])

\* redraw_line that does not store the line in the snapshot.
redraw_line_keeps_snapshot(t, m, line) ==
    Try(move_cursor_to_line(m, line),
        LAMBDA x : Try(term_clear_line(x),
        LAMBDA y : Try(draw_line(t, y, line),
        LAMBDA z : draw_cursor(t,
            [z EXCEPT !.pds.index = Len(t.buffers[line + 1])]))))

\* redraw_line that does not move to the line first.
redraw_line_in_place(t, m, line) ==
    Try(term_clear_line(m),
        LAMBDA y : Try(draw_line(t, y, line),
        LAMBDA z : draw_cursor(t,
            [z EXCEPT !.pds.index = Len(t.buffers[line + 1]),
                      !.pbuf[line + 1] = t.buffers[line + 1]])))

redraw_line(t, m, line) ==
    Try(move_cursor_to_line(m, line),
        LAMBDA x : Try(term_clear_line(x),
        LAMBDA y : Try(draw_line(t, y, line),
        LAMBDA z : draw_cursor(t,
            [z EXCEPT !.pds.index = Len(t.buffers[line + 1]),
                      !.pbuf[line + 1] = t.buffers[line + 1]]))))

\* redraw repainting everything when only the cursor moved.
LazyRenderer_redraw_repaints_for_cursor(t, m) ==
    LET d == find_diff(m.pbuf, t.buffers, ShadowCursor(m), t.cursor) IN
    CASE d.kind = "NoChange" -> m
      [] d.kind = "RedrawLine" -> redraw_line(t, m, d.line)
      [] OTHER -> Try(LazyRenderer_clear_draw(m), LAMBDA x : LazyRenderer_draw(t, x))

LazyRenderer_redraw(t, m) ==
    LET d == find_diff(m.pbuf, t.buffers, ShadowCursor(m), t.cursor) IN
    CASE d.kind = "NoChange" -> m
      [] d.kind = "RedrawCursor" -> draw_cursor(t, m)
      [] d.kind = "RedrawLine" -> redraw_line(t, m, d.line)
      [] OTHER -> Try(LazyRenderer_clear_draw(m), LAMBDA x : LazyRenderer_draw(t, x))

\* ------------------------------------------------------------------- the state
InitCommon ==
    /\ buffers = <<>>
    /\ cursor = [line |-> 0, index |-> 0]
    /\ gutter \in {"none", "basic", "cursor"}
    /\ mode \in {"full", "lazy"}
    /\ overflowChecks = "unknown"
    /\ pds = [height |-> 0, line |-> 0, index |-> 0]
    /\ pbuf = <<>>
    /\ scr = BlankScreen
    /\ prow = 0
    /\ pcol = 0
    /\ blk = {}
    /\ log = <<>>
    /\ lastOp = "init"
    /\ diff = DiffOf("none", 0)
    /\ status = "ok"
    /\ pre = <<>>
    /\ arg = 0

Init == InitCommon /\ hlost = FALSE

\* The same with the cells of the window not followed.
InitRowsOnly == InitCommon /\ hlost = TRUE

\* The renderer and the terminal as a renderer call finds them.
Start(fuel, chk) ==
    [scr |-> scr, prow |-> prow, pcol |-> pcol, blk |-> blk, hlost |-> hlost,
     pds |-> pds,
     pbuf |-> pbuf, log |-> <<>>, fuel |-> fuel, st |-> "ok", oob |-> FALSE,
     uf |-> FALSE, chk |-> chk, of |-> FALSE]

\* The builds a call may be running in: the one already observed, else either.
Builds == IF overflowChecks = "unknown" THEN {"on", "off"} ELSE {overflowChecks}

\* A call `op` with count n that ended in m: the state it leaves.
Returned(op, d, m, n) ==
    /\ ~m.oob
    /\ scr' = m.scr
    /\ prow' = m.prow
    /\ pcol' = m.pcol
    /\ blk' = m.blk
    /\ hlost' = m.hlost
    /\ pds' = m.pds
    /\ pbuf' = m.pbuf
    /\ log' = m.log
    /\ status' = m.st
    /\ lastOp' = op
    /\ diff' = d
    /\ pre' = [pds |-> pds, pbuf |-> pbuf, scr |-> scr, prow |-> prow,
               pcol |-> pcol, blk |-> blk, hlost |-> hlost, op |-> lastOp,
               uf |-> m.uf]
    /\ overflowChecks' = IF m.of THEN m.chk ELSE overflowChecks
    /\ (~m.of => m.chk = "on")
    /\ arg' = n
    /\ UNCHANGED <<buffers, cursor, gutter, mode>>

\* A renderer call `op` that ended in m: the state it leaves.
Finish(op, d, m) == Returned(op, d, m, 0)

\* The last call drew over a block that was already drawn.
Overdrawn == lastOp = "draw" /\ pre.pds.height # 0

\* The session is followed up to the first I/O error or panic, the first usize
\* overflow of a build that wraps, and the first draw over a drawn block.
Live == status = "ok" /\ overflowChecks = "unknown" /\ ~Overdrawn

\* What each Renderer method returns and leaves, for the renderer in use.
DrawResult(fuel, chk) ==
    IF mode = "lazy" THEN LazyRenderer_draw(Term, Start(fuel, chk))
    ELSE FullRenderer_draw(Term, Start(fuel, chk))

ClearDrawResult(fuel, chk) ==
    IF mode = "lazy" THEN LazyRenderer_clear_draw(Start(fuel, chk))
    ELSE FullRenderer_clear_draw(Start(fuel, chk))

RedrawResult(fuel, chk) ==
    IF mode = "lazy" THEN LazyRenderer_redraw(Term, Start(fuel, chk))
    ELSE FullRenderer_redraw(Term, Start(fuel, chk))

\* The classification a call of redraw starts with (LazyRenderer only).
Classified ==
    IF mode = "lazy"
    THEN find_diff(pbuf, buffers, [line |-> pds.line, index |-> pds.index], cursor)
    ELSE DiffOf("none", 0)

Draw ==
    /\ Live
    /\ \E chk \in Builds : Finish("draw", DiffOf("none", 0), DrawResult(NoFail, chk))

ClearDraw ==
    /\ Live
    /\ \E chk \in Builds :
          Finish("clear_draw", DiffOf("none", 0), ClearDrawResult(NoFail, chk))

Redraw ==
    /\ Live
    /\ \E chk \in Builds : Finish("redraw", Classified, RedrawResult(NoFail, chk))

\* A primitive call of the renderer call that ended in m returned an I/O error.
Failed(m) == \E i \in 1..Len(m.log) : ~m.log[i].ok

\* The same calls with an I/O error injected at primitive call number f.
DrawFails ==
    /\ Live
    /\ \E f \in 0..MaxFailAt, chk \in Builds :
          /\ Failed(DrawResult(f, chk))
          /\ Finish("draw", DiffOf("none", 0), DrawResult(f, chk))

ClearDrawFails ==
    /\ Live
    /\ \E f \in 0..MaxFailAt, chk \in Builds :
          /\ Failed(ClearDrawResult(f, chk))
          /\ Finish("clear_draw", DiffOf("none", 0), ClearDrawResult(f, chk))

RedrawFails ==
    /\ Live
    /\ \E f \in 0..MaxFailAt, chk \in Builds :
          /\ Failed(RedrawResult(f, chk))
          /\ Finish("redraw", Classified, RedrawResult(f, chk))

\* ------------------------------------------------------------ consumer edits
Edited(b, c) ==
    /\ Live
    /\ buffers' = b
    /\ cursor' = c
    /\ lastOp' = "edit"
    /\ log' = <<>>
    /\ diff' = DiffOf("none", 0)
    /\ pre' = <<>>
    /\ UNCHANGED <<gutter, mode, overflowChecks, pds, pbuf, scr, prow, pcol, blk, hlost,
                   status, arg>>

InsertAt(s, k, c) == SubSeq(s, 1, k) \o <<c>> \o SubSeq(s, k + 1, Len(s))
RemoveAt(s, k) == SubSeq(s, 1, k - 1) \o SubSeq(s, k + 1, Len(s))

\* A character typed at the cursor (the first one creates line 0).
TypeChar ==
    \E c \in Chars :
        IF buffers = <<>>
        THEN Edited(<<<<c>>>>, [line |-> 0, index |-> 1])
        ELSE LET l == buffers[cursor.line + 1]
                 k == Min(cursor.index, Len(l))
             IN /\ Len(l) < MaxLen
                /\ Edited([buffers EXCEPT ![cursor.line + 1] = InsertAt(l, k, c)],
                          [cursor EXCEPT !.index = k + 1])

\* The character before the cursor deleted.
DeleteChar ==
    /\ buffers # <<>>
    /\ LET l == buffers[cursor.line + 1]
           k == Min(cursor.index, Len(l))
       IN /\ k > 0
          /\ Edited([buffers EXCEPT ![cursor.line + 1] = RemoveAt(l, k)],
                    [cursor EXCEPT !.index = k - 1])

\* An empty line opened below the cursor's line.
NewLine ==
    /\ buffers # <<>>
    /\ Len(buffers) < MaxLines
    /\ Edited(InsertAt(buffers, cursor.line + 1, <<>>),
              [line |-> cursor.line + 1, index |-> 0])

\* The cursor's line removed; the cursor keeps its index on the line above.
DeleteLine ==
    /\ buffers # <<>>
    /\ LET b == RemoveAt(buffers, cursor.line + 1) IN
       Edited(b, IF b = <<>> THEN [line |-> 0, index |-> 0]
                 ELSE [cursor EXCEPT !.line = Max(0, cursor.line - 1)])

\* The cursor moved a line up or down (index kept) or a column left or right.
MoveCursor ==
    /\ buffers # <<>>
    /\ \E c \in [line : 0..(Len(buffers) - 1), index : 0..MaxLen] :
          /\ \/ c.index = cursor.index /\ c.line \in {cursor.line - 1, cursor.line + 1}
             \/ /\ c.line = cursor.line
                /\ c.index \in {cursor.index - 1, cursor.index + 1}
                /\ c.index <= Len(buffers[c.line + 1])
          /\ Edited(buffers, c)

Next ==
    \/ Draw \/ ClearDraw \/ Redraw
    \/ TypeChar \/ DeleteChar \/ NewLine \/ DeleteLine \/ MoveCursor

Spec == Init /\ [][Next]_vars

NextIO ==
    \/ Draw \/ ClearDraw \/ Redraw
    \/ TypeChar \/ DeleteChar \/ NewLine \/ DeleteLine \/ MoveCursor
    \/ DrawFails \/ ClearDrawFails \/ RedrawFails

SpecIO == InitRowsOnly /\ [][NextIO]_vars

\* ------------------------------------------------------- find_diff on its own
\* find_diff applied to every snapshot, buffer, shadow cursor and logical
\* cursor of a small domain (also ones no session of the renderer produces).
DiffTexts == {<<>>, <<"a">>, <<"b">>}
DiffBuffers == UNION {[1..n -> DiffTexts] : n \in 0..MaxDiffLines}
DiffCursors == [line : 0..1, index : 0..1]

InitDiff ==
    /\ buffers \in DiffBuffers
    /\ pbuf \in DiffBuffers
    /\ cursor \in DiffCursors
    /\ \E c \in DiffCursors : pds = [height |-> Len(pbuf), line |-> c.line, index |-> c.index]
    /\ gutter = "none"
    /\ mode = "lazy"
    /\ overflowChecks = "unknown"
    /\ scr = BlankScreen
    /\ prow = 0
    /\ pcol = 0
    /\ blk = {}
    /\ hlost = FALSE
    /\ log = <<>>
    /\ lastOp = "init"
    /\ diff = DiffOf("none", 0)
    /\ status = "ok"
    /\ pre = <<>>
    /\ arg = 0

Classify ==
    /\ lastOp = "init"
    /\ diff' = find_diff(pbuf, buffers, [line |-> pds.line, index |-> pds.index], cursor)
    /\ lastOp' = "classify"
    /\ UNCHANGED <<buffers, cursor, gutter, mode, overflowChecks, pds, pbuf, scr,
                   prow, pcol, blk, hlost, log, status, pre, arg>>

NextDiff == Classify

SpecDiff == InitDiff /\ [][NextDiff]_vars

\* ------------------------------------------- the directional moves on their own
\* move_cursor_up/down/left/right are public: each is called once, with any
\* count up to MaxMove, on a shadow cursor with small coordinates or with
\* coordinates at the top of the usize range.
MoveCoords == (0..MaxLines) \cup {UsizeMod - 1}

InitMove ==
    /\ pds \in [height : 0..MaxLines, line : MoveCoords, index : MoveCoords]
    /\ prow \in 0..(TermRows - 1)
    /\ pcol \in 0..TermCols
    /\ buffers = <<>>
    /\ cursor = [line |-> 0, index |-> 0]
    /\ gutter = "none"
    /\ mode = "full"
    /\ overflowChecks = "unknown"
    /\ pbuf = <<>>
    /\ scr = BlankScreen
    /\ blk = {}
    /\ hlost = FALSE
    /\ log = <<>>
    /\ lastOp = "init"
    /\ diff = DiffOf("none", 0)
    /\ status = "ok"
    /\ pre = <<>>
    /\ arg = 0

MoveUp ==
    /\ lastOp = "init"
    /\ \E n \in 0..MaxMove, chk \in Builds :
          Returned("move_cursor_up", DiffOf("none", 0),
                   move_cursor_up(Start(NoFail, chk), n), n)

MoveDown ==
    /\ lastOp = "init"
    /\ \E n \in 0..MaxMove, chk \in Builds :
          Returned("move_cursor_down", DiffOf("none", 0),
                   move_cursor_down(Start(NoFail, chk), n), n)

MoveLeft ==
    /\ lastOp = "init"
    /\ \E n \in 0..MaxMove, chk \in Builds :
          Returned("move_cursor_left", DiffOf("none", 0),
                   move_cursor_left(Start(NoFail, chk), n), n)

MoveRight ==
    /\ lastOp = "init"
    /\ \E n \in 0..MaxMove, chk \in Builds :
          Returned("move_cursor_right", DiffOf("none", 0),
                   move_cursor_right(Start(NoFail, chk), n), n)

NextMove == MoveUp \/ MoveDown \/ MoveLeft \/ MoveRight

SpecMove == InitMove /\ [][NextMove]_vars

\* ------------------------------------------------------------------ properties
Called == lastOp \in {"draw", "clear_draw", "redraw"}
Succeeded == Called /\ status = "ok"

\* The terminal primitive calls of a log, without the rows they acted on.
Ops(l) == [i \in 1..Len(l) |-> <<l[i].op, l[i].n>>]

\* Width of the gutter on the row of the physical cursor (none on a row the
\* renderer has nothing on).
GutterEnd == IF prow \in blk THEN GutterLen ELSE 0

\* C1: after every successful draw, clear_draw or redraw the shadow height is
\* the number of rows the drawn block occupies, the shadow line is the row of
\* the physical cursor in the block and the shadow index is its column past
\* the gutter.
C1_ShadowMirrorsTerminal ==
    Succeeded =>
        /\ pds.height = Cardinality(blk)
        /\ pds.line = prow
        /\ (~hlost => pds.index = pcol - GutterEnd)

\* C2: after a successful draw of a buffer with the logical cursor (ln, idx),
\* the shadow cursor is (ln, min(idx, length of line ln)).
C2_DrawLeavesClampedCursor ==
    (lastOp = "draw" /\ status = "ok" /\ buffers # <<>>) =>
        /\ pds.line = cursor.line
        /\ pds.index = Min(cursor.index, Len(buffers[cursor.line + 1]))

\* A draw that had to move up and to clamp a stale index.
C2_Witness ==
    /\ lastOp = "draw" /\ status = "ok" /\ buffers # <<>>
    /\ cursor.line < Len(buffers) - 1
    /\ cursor.index > Len(buffers[cursor.line + 1])

\* The renderer and the terminal as the last renderer call found them.
PreStart ==
    [scr |-> pre.scr, prow |-> pre.prow, pcol |-> pre.pcol, blk |-> pre.blk,
     hlost |-> pre.hlost, pds |-> pre.pds, pbuf |-> pre.pbuf, log |-> <<>>,
     fuel |-> NoFail, st |-> "ok", oob |-> FALSE, uf |-> FALSE, chk |-> "on",
     of |-> FALSE]

\* What FullRenderer::redraw would have left had it been called instead.
FullRedrawInstead == FullRenderer_redraw(Term, PreStart)

\* C3: after a successful LazyRenderer.redraw the screen and the physical
\* cursor are what FullRenderer.redraw (clear_draw then draw) leaves for the
\* same buffer and cursor.
C3_LazyRedrawLooksLikeFullRedraw ==
    (/\ mode = "lazy" /\ lastOp = "redraw" /\ status = "ok" /\ ~hlost
     /\ FullRedrawInstead.st = "ok" /\ ~FullRedrawInstead.hlost
     /\ ~FullRedrawInstead.oob) =>
        /\ scr = FullRedrawInstead.scr
        /\ prow = FullRedrawInstead.prow
        /\ pcol = FullRedrawInstead.pcol

\* The indices at which two snapshots of the same length differ.
Differing(old, new) == {i \in 0..(Len(old) - 1) : old[i + 1] # new[i + 1]}

\* C4: find_diff follows the priority rule: RedrawAll when the line counts
\* differ; else, with d the number of differing indices, NoChange for d = 0
\* and equal cursors, RedrawCursor for d = 0 and different cursors,
\* RedrawLine(k) for d = 1 with k the differing index, RedrawAll for d >= 2.
C4_DiffRule ==
    lastOp = "classify" =>
        diff = IF Len(pbuf) # Len(buffers) THEN DiffOf("RedrawAll", 0)
               ELSE LET D == Differing(pbuf, buffers) IN
                    IF D = {}
                    THEN IF [line |-> pds.line, index |-> pds.index] = cursor
                         THEN DiffOf("NoChange", 0)
                         ELSE DiffOf("RedrawCursor", 0)
                    ELSE IF Cardinality(D) = 1
                    THEN DiffOf("RedrawLine", CHOOSE k \in D : TRUE)
                    ELSE DiffOf("RedrawAll", 0)

\* One differing line, not the first, and different cursors: RedrawLine.
C4_Witness ==
    /\ lastOp = "classify"
    /\ diff = DiffOf("RedrawLine", 1)
    /\ [line |-> pds.line, index |-> pds.index] # cursor

\* The second of two successive redraws of the LazyRenderer.
SecondRedraw ==
    /\ mode = "lazy" /\ lastOp = "redraw" /\ status = "ok"
    /\ pre.op = "redraw"

\* C5 as stated: the second of two successive redraws is classified NoChange
\* and issues no terminal operation.
C5_SecondRedrawIsNoChange ==
    SecondRedraw => (diff.kind = "NoChange" /\ log = <<>>)

\* C5 as amended: the second of two successive redraws issues no terminal
\* operation and leaves shadow state and snapshot as they are; it is
\* classified RedrawCursor when the logical index exceeds the length of the
\* cursor's line and NoChange otherwise.
C5_SecondRedrawIsSilent ==
    SecondRedraw =>
        /\ log = <<>>
        /\ pds = pre.pds
        /\ pbuf = pre.pbuf
        /\ diff.kind = IF cursor.index > current_line_len(Term)
                       THEN "RedrawCursor" ELSE "NoChange"

\* A second redraw with a stale logical index: classified RedrawCursor.
C5_Witness ==
    /\ SecondRedraw
    /\ buffers # <<>>
    /\ cursor.index > current_line_len(Term)
    /\ diff.kind = "RedrawCursor"

\* A fresh renderer on a blank terminal.
Fresh ==
    [scr |-> BlankScreen, prow |-> 0, pcol |-> 0, blk |-> {}, hlost |-> FALSE,
     pds |-> [height |-> 0, line |-> 0, index |-> 0], pbuf |-> <<>>,
     log |-> <<>>, fuel |-> NoFail, st |-> "ok", oob |-> FALSE, uf |-> FALSE,
     chk |-> "on", of |-> FALSE]

\* What a single draw of the current buffer and cursor leaves.
SingleDraw == FullRenderer_draw(Term, Fresh)

\* C6: clear_draw followed by draw leaves the screen and the physical cursor
\* as a single draw of the final buffer and cursor does.
C6_ClearThenDrawLooksLikeDraw ==
    (/\ lastOp = "draw" /\ status = "ok" /\ pre.op = "clear_draw"
     /\ ~hlost /\ ~SingleDraw.hlost) =>
        /\ scr = SingleDraw.scr
        /\ prow = SingleDraw.prow
        /\ pcol = SingleDraw.pcol

\* C7: clear_draw on a block of height H with the shadow cursor on line c
\* issues H - c - 1 rows of downward movement (no call for 0 rows), one clear
\* of the current line and one clear of the H - 1 lines above, in this order,
\* and resets the shadow state.
C7_ClearDrawSequence ==
    (lastOp = "clear_draw" /\ status = "ok" /\ pre.pds.height > pre.pds.line) =>
        LET H == pre.pds.height
            c == pre.pds.line
        IN /\ Ops(log) =
                (IF H - c - 1 > 0 THEN << <<"down", H - c - 1>> >> ELSE << >>)
                \o << <<"clear_line", 0>>, <<"clear_last_lines", H - 1>> >>
           /\ pds = [height |-> 0, line |-> 0, index |-> 0]

\* A clear_draw that had to move down to the last row of the block.
C7_Witness ==
    /\ lastOp = "clear_draw" /\ status = "ok"
    /\ pre.pds.height = 2 /\ pre.pds.line = 0

\* C8: a successful draw of the empty buffer sets the shadow height to 1,
\* leaves the shadow cursor as it was and calls the gutter once, for line 0
\* (when configured), with no other terminal operation.
C8_EmptyDraw ==
    (lastOp = "draw" /\ status = "ok" /\ buffers = <<>>) =>
        /\ pds.height = 1
        /\ pds.line = pre.pds.line
        /\ pds.index = pre.pds.index
        /\ Ops(log) = IF gutter # "none" THEN << <<"gutter", 0>> >> ELSE << >>

\* A draw of the empty buffer with a gutter, the shadow cursor not at (0, 0).
C8_Witness ==
    /\ lastOp = "draw" /\ status = "ok" /\ buffers = <<>>
    /\ gutter # "none"
    /\ pre.pds.index # 0

\* The redraw of one line by the LazyRenderer, and the row the line is on.
SingleLine == mode = "lazy" /\ lastOp = "redraw" /\ status = "ok" /\ diff.kind = "RedrawLine"
RowOfLine(k) == pre.prow - pre.pds.line + k

\* C9: a SingleLine(k) redraw writes gutter(k) and the text of line k once
\* each, writes and clears on the row of line k only, breaks no line and
\* clears no other line, changes entry k of the snapshot only and leaves the
\* shadow height as it was.
C9_SingleLineFrame ==
    SingleLine =>
        LET k == diff.line IN
        /\ \A i \in 1..Len(log) :
              /\ log[i].op \in {"gutter", "text", "clear_line", "up", "down", "left", "right"}
              /\ log[i].op \in {"gutter", "text"} => log[i].n = k
              /\ log[i].op \in {"gutter", "text", "clear_line"} => log[i].row = RowOfLine(k)
        /\ Cardinality({i \in 1..Len(log) : log[i].op = "gutter"}) = GutterLen
        /\ Cardinality({i \in 1..Len(log) : log[i].op = "text"}) = 1
        /\ Cardinality({i \in 1..Len(log) : log[i].op = "clear_line"}) = 1
        /\ pbuf = [pre.pbuf EXCEPT ![k + 1] = buffers[k + 1]]
        /\ pds.height = pre.pds.height
        /\ ~hlost => \A r \in 1..TermRows : r - 1 # RowOfLine(k) => scr[r] = pre.scr[r]

\* A SingleLine redraw of a line the shadow cursor was not on.
C9_Witness ==
    /\ SingleLine
    /\ gutter # "none"
    /\ pre.pds.line # diff.line

\* C10: a renderer call that returns an I/O error ends with the primitive
\* call that failed, the only failed call of it; a call that returns Ok has
\* no failed primitive call.
C10_FailFast ==
    Called =>
        /\ status = "err" =>
              /\ log # <<>>
              /\ ~log[Len(log)].ok
              /\ \A i \in 1..(Len(log) - 1) : log[i].ok
        /\ status = "ok" => \A i \in 1..Len(log) : log[i].ok

\* A redraw that failed at its third primitive call or later.
C10_Witness ==
    /\ lastOp = "redraw" /\ status = "err"
    /\ pre.pds.height > pre.pds.line
    /\ Len(log) >= 3

\* What row k of the block shows when line k is drawn from column 0.
RowShowing(k) ==
    LET text == GutterText(Term, k) \o buffers[k + 1] IN
    [c \in 1..TermCols |-> IF c <= Len(text) THEN text[c] ELSE Blank]

\* C11: after a SingleLine(k) redraw the row of line k shows gutter(k) and
\* the new text of line k from column 0 and nothing else, and the shadow
\* index is the column of the physical cursor past the gutter.
C11_SingleLineRowIsClean ==
    (SingleLine /\ ~hlost) =>
        /\ scr[RowOfLine(diff.line) + 1] = RowShowing(diff.line)
        /\ pds.index = pcol - GutterLen

\* The last renderer call ran clear_draw (on its own or inside redraw).
RanClearDraw ==
    \/ lastOp = "clear_draw"
    \/ lastOp = "redraw" /\ (mode = "full" \/ diff.kind = "RedrawAll")

\* C12: whenever clear_draw runs the shadow line is below the shadow height,
\* so that height - line - 1 and height - 1 do not go below zero.
C12_ClearDrawNeverUnderflows ==
    RanClearDraw => (pre.pds.line < pre.pds.height /\ ~pre.uf)

\* C13: after every successful draw or redraw of the LazyRenderer the
\* snapshot equals the buffer, line for line; after its clear_draw the
\* snapshot is empty.
C13_SnapshotInvariant ==
    (mode = "lazy" /\ Succeeded) =>
        pbuf = IF lastOp = "clear_draw" THEN <<>> ELSE buffers

\* A SingleLine redraw of a two-line buffer: one entry of the snapshot stored.
C13_Witness ==
    /\ SingleLine
    /\ Len(buffers) = 2
    /\ pre.pbuf # buffers

\* C14: after every successful redraw of the LazyRenderer the shadow height
\* is max(1, number of lines of the buffer).
C14_HeightTracksBuffer ==
    (mode = "lazy" /\ lastOp = "redraw" /\ status = "ok") =>
        pds.height = Max(1, Len(buffers))

\* The terminal move and the shadow state a directional move by arg leaves.
Moved == lastOp \in {"move_cursor_up", "move_cursor_down", "move_cursor_left", "move_cursor_right"}
MoveOp == CASE lastOp = "move_cursor_up" -> "up"
            [] lastOp = "move_cursor_down" -> "down"
            [] lastOp = "move_cursor_left" -> "left"
            [] OTHER -> "right"
MovedShadow ==
    CASE lastOp = "move_cursor_up" ->
            [pre.pds EXCEPT !.line = (@ - arg + UsizeMod) % UsizeMod]
      [] lastOp = "move_cursor_down" ->
            [pre.pds EXCEPT !.line = (@ + arg) % UsizeMod]
      [] lastOp = "move_cursor_left" ->
            [pre.pds EXCEPT !.index = (@ - arg + UsizeMod) % UsizeMod]
      [] OTHER ->
            [pre.pds EXCEPT !.index = (@ + arg) % UsizeMod]

CursorOnly == mode = "lazy" /\ lastOp = "redraw" /\ status = "ok" /\ diff.kind = "RedrawCursor"

\* C16: a CursorOnly redraw issues relative cursor moves only, at most one
\* vertical and at most one horizontal, and leaves the screen, the rows of
\* the block, the shadow height and the snapshot as they were.
C16_CursorOnlyFrame ==
    CursorOnly =>
        /\ \A i \in 1..Len(log) : log[i].op \in {"up", "down", "left", "right"}
        /\ Cardinality({i \in 1..Len(log) : log[i].op \in {"up", "down"}}) <= 1
        /\ Cardinality({i \in 1..Len(log) : log[i].op \in {"left", "right"}}) <= 1
        /\ (~hlost => scr = pre.scr)
        /\ blk = pre.blk
        /\ pds.height = pre.pds.height
        /\ pbuf = pre.pbuf

\* A CursorOnly redraw that moved both vertically and horizontally.
C16_Witness ==
    /\ CursorOnly
    /\ Len(log) = 2
    /\ pds # pre.pds

\* The calls that write the L lines of the buffer: per line the gutter (when
\* configured) and the text, and a line break after every line but the last.
WritesOfDraw ==
    LET L == Len(buffers)
        g == GutterLen
    IN [j \in 1..(L * (g + 2) - 1) |->
           LET i == (j - 1) \div (g + 2)
               r == (j - 1) % (g + 2)
           IN IF r = g + 1 THEN <<"newline", 0>>
              ELSE IF r = g THEN <<"text", i>>
              ELSE <<"gutter", i>>]

\* C17: a successful draw of a non-empty buffer first writes, for each line
\* in ascending order, gutter(i) then the text of line i, with one line break
\* between consecutive lines and none after the last; only cursor moves
\* follow.  Drawn on a blank terminal, row i shows gutter(i) and line i.
C17_DrawOutputOrder ==
    (lastOp = "draw" /\ status = "ok" /\ buffers # <<>>) =>
        LET n == Len(WritesOfDraw) IN
        /\ Len(log) >= n
        /\ SubSeq(Ops(log), 1, n) = WritesOfDraw
        /\ \A i \in (n + 1)..Len(log) : log[i].op \in {"up", "down", "left", "right"}
        /\ (pre.scr = BlankScreen /\ pre.prow = 0 /\ pre.pcol = 0 /\ ~hlost) =>
              \A i \in 0..(Len(buffers) - 1) : scr[i + 1] = RowShowing(i)

\* A draw of two lines with a gutter, the cursor moved up and left afterwards.
C17_Witness ==
    /\ lastOp = "draw" /\ status = "ok"
    /\ Len(buffers) = 2
    /\ gutter # "none"
    /\ Len(log) = Len(WritesOfDraw) + 2
    /\ pre.scr = BlankScreen /\ pre.prow = 0 /\ pre.pcol = 0 /\ ~hlost

\* The primitive call that returned the I/O error of the last renderer call.
FailedOp == log[Len(log)].op
WriteOps == {"gutter", "text", "newline"}
Zeros == [height |-> 0, line |-> 0, index |-> 0]

\* C18: after a renderer call that returned an I/O error the shadow state is
\* what the steps completed before the failure made it:
\*  - a failed cursor move has not changed the shadow cursor (a CursorOnly
\*    redraw failing at its first move leaves the shadow state as it was, at
\*    its second move the line is already the new one and the index the old);
\*  - a failed write in the loop of draw leaves the shadow state as it was
\*    before the loop (in redraw: as clear_draw reset it);
\*  - a SingleLine(k) redraw failing at its first move leaves the shadow state
\*    as it was; failing at the clear or a write it leaves the snapshot and
\*    the shadow index as they were, with the shadow line already k.
C18_ShadowAfterFailure ==
    (Called /\ status = "err") =>
        /\ (lastOp = "draw" /\ FailedOp \in WriteOps) =>
              (pds = pre.pds /\ pbuf = pre.pbuf)
        /\ (lastOp = "redraw" /\ diff.kind \in {"none", "RedrawAll"} /\ FailedOp \in WriteOps) =>
              (pds = Zeros /\ pbuf = <<>>)
        /\ (lastOp = "redraw" /\ diff.kind = "RedrawCursor") =>
              /\ pbuf = pre.pbuf
              /\ Len(log) = 1 => pds = pre.pds
              /\ Len(log) = 2 => pds = [pre.pds EXCEPT !.line = cursor.line]
        /\ (lastOp = "redraw" /\ diff.kind = "RedrawLine") =>
              /\ (Len(log) = 1 /\ FailedOp \in {"up", "down"}) =>
                    (pds = pre.pds /\ pbuf = pre.pbuf)
              /\ FailedOp \in {"clear_line", "gutter", "text"} =>
                    /\ pbuf = pre.pbuf
                    /\ pds = [pre.pds EXCEPT !.line = diff.line]

\* A SingleLine redraw that moved to its line and failed writing the text.
C18_Witness ==
    /\ mode = "lazy" /\ lastOp = "redraw" /\ status = "err"
    /\ diff.kind = "RedrawLine"
    /\ FailedOp = "text"
    /\ log[1].op = "down"
    /\ pds.line # pre.pds.line

====
